---- MODULE Spec2Model ----
(***************************************************************************)
(* Privileged RPC server of the container runtime                          *)
(* (internal/pkg/runtime/engine/singularity/rpc/server/server_linux.go).   *)
(*                                                                         *)
(* One action per RPC method.  A method is served on the OS thread `rt`    *)
(* its goroutine happens to run on; work passed to mainthread.Execute runs *)
(* on the main thread.  Outcomes of kernel calls are inputs of the action. *)
(* `last` records the most recent request: its arguments, the value it     *)
(* returned, its reply, and the kernel calls it performed, in order.       *)
(***************************************************************************)
EXTENDS Integers, Sequences, FiniteSets, TLC

\* ------------------------------------------------------------------ bounds
\* OS threads, besides the main thread, on which requests are served.
NumHandlerThreads == 1
\* uids and gids range over 0..MaxId.
MaxId == 1
\* Cap on the lookup counter (the code itself never looks up twice).
MaxLookups == 2

\* ------------------------------------------------------- process and kernel
MainThread == 0
HandlerThreads == 1..NumHandlerThreads
Threads == {MainThread} \cup HandlerThreads

\* os.Getuid() / os.Getgid(): the real ids of the server process
Uid == 1
Gid == 1
FsIds == 0..MaxId

\* os.Getpid() and the pid of the master process (host IPC namespace)
SelfPid == 7
MasterPids == {-1, 0, 5}

KernelErrs == {"EPERM", "ENOENT"}
Outcomes == {"nil"} \cup KernelErrs

\* The directories of the file trees: the host root; the host directory
\* /mnt/rootfs ("under"), on which the container file system is mounted at
\* the start; the container root; and the directory /mnt/rootfs of the
\* container file system.  The last and "under" hold no /mnt/rootfs.
Dirs == {"hostroot", "under", "rootfs", "rootfs/mnt/rootfs"}
\* Where a file system is mounted: as the root mount of the namespace, on the
\* host's /mnt/rootfs, on the "/" of the other file system, or nowhere (lazily
\* detached, still reachable through a working directory or a descriptor).
MountPlaces == {"root", "on_mnt", "on_slash", "detached"}
Mnt(at, slave) == [at |-> at, slave |-> slave]
NoDir == "none"

VARIABLES
    diskGID,     \* package variable diskGID
    groupdb,     \* the group database entry of "disk": <<gid>>, or <<>> if absent
    lookups,     \* number of user.GetGrNam("disk") calls so far
    gidWrites,   \* number of assignments to diskGID so far
    fsuid,       \* filesystem uid, per OS thread
    fsgid,       \* filesystem gid, per OS thread
    ipcns,       \* IPC namespace, per OS thread
    umask,       \* file mode creation mask of the process
    root,        \* root directory of the process
    cwd,         \* current working directory of the process
    hostmnt,     \* the mount of the host file system: [at, slave]
    ctrmnt,      \* the mount of the container file system: [at, slave]
    last,        \* the most recent request
    signals,     \* the signal stream handed to MonitorContainer
    child,       \* the tracked container process, as the kernel sees it
    mon,         \* the MonitorContainer call of the build engine
    build,       \* the StartProcess call of the build engine
    registry,    \* the engine registry: operations and RPC catalogue by name
    found        \* the most recent registry lookup

\* state of the RPC server
srvVars == <<diskGID, groupdb, lookups, gidWrites, fsuid, fsgid, ipcns, umask,
             root, cwd, hostmnt, ctrmnt, last>>
\* state of the engines
engVars == <<signals, child, mon, build, registry, found>>

vars == <<srvVars, engVars>>

\* one kernel (or runtime) call made by a handler; t is the set of threads
\* the call can run on
EvOn(sys, ts, ok, arg) == [sys |-> sys, t |-> ts, ok |-> ok, arg |-> arg]
\* a call made on thread t: through the executor, or by a handler on the
\* thread it runs on
Ev(sys, t, ok, arg) == EvOn(sys, {t}, ok, arg)
\* a call made by a handler that has not pinned its thread and has made
\* calls before: the scheduler may have moved it to any thread but the
\* executor's, which is pinned to the executor
EvAny(sys, ok, arg) == EvOn(sys, HandlerThreads, ok, arg)

Call(op, t, args, ret, reply, trace) ==
    [op |-> op, t |-> t, args |-> args, ret |-> ret, reply |-> reply, trace |-> trace]

\* ------------------------------------------------------------ mainthread
\* mainthread.Execute(f): f runs on the worker thread pinned for the life of
\* the process, whatever thread the caller is on.
Execute(rt) == MainThread

\* ----------------------------------------------------------------- Mount
\* The thread on which Mount's syscall runs.
MountThread(rt) == Execute(rt)

\* *mountErr = syscall.Mount(...); return nil
MountReplyDropped(kerr) == "nil"
MountReply(kerr) == kerr

MountTrace(rt, kerr) == <<Ev("mount", MountThread(rt), kerr = "nil", "-")>>

Mount(rt, target, kerr) ==
    /\ last' = Call("Mount", rt, [target |-> target, kerr |-> kerr], "nil",
                    MountReply(kerr), MountTrace(rt, kerr))
    /\ UNCHANGED <<diskGID, groupdb, lookups, gidWrites, fsuid, fsgid, ipcns,
                   umask, root, cwd, hostmnt, ctrmnt>>

\* ----------------------------------------------------------------- Mkdir
RECURSIVE BitAnd(_, _)
BitAnd(a, b) ==
    IF a = 0 \/ b = 0 THEN 0
    ELSE (a % 2) * (b % 2) + 2 * BitAnd(a \div 2, b \div 2)

\* mkdir(2): the directory gets mode (perm & ~umask)
CreatedMode(perm, mask) == perm - BitAnd(perm, mask)

Perms == {493, 511}           \* 0755, 0777
Masks == {0, 18, 63}          \* 000, 022, 077

\* oldmask := syscall.Umask(0): the mask in force while the directory is made
MkdirMaskKept(mask) == mask
MkdirMask(mask) == 0

\* syscall.Umask(oldmask): the mask left behind
MkdirRestore(oldmask) == oldmask

Mkdir(rt, perm, kerr) ==
    LET oldmask == umask
        during  == MkdirMask(oldmask)
        t       == Execute(rt)
        mode    == IF kerr = "nil" THEN CreatedMode(perm, during) ELSE -1
    IN  /\ umask' = MkdirRestore(oldmask)
        /\ last' = Call("Mkdir", rt, [perm |-> perm, kerr |-> kerr, oldmask |-> oldmask],
                        kerr, mode,
                        <<Ev("umask", t, TRUE, during),
                          Ev("mkdir", t, kerr = "nil", perm),
                          Ev("umask", t, TRUE, MkdirRestore(oldmask))>>)
        /\ UNCHANGED <<diskGID, groupdb, lookups, gidWrites, fsuid, fsgid, ipcns,
                       root, cwd, hostmnt, ctrmnt>>

\* --------------------------------------------------------------- SetFsID
SetFsID(rt, uid, gid) ==
    LET t == Execute(rt)
    IN  /\ fsuid' = [fsuid EXCEPT ![t] = uid]
        /\ fsgid' = [fsgid EXCEPT ![t] = gid]
        /\ last' = Call("SetFsID", rt, [uid |-> uid, gid |-> gid], "nil", 0,
                        <<Ev("setfsuid", t, TRUE, uid), Ev("setfsgid", t, TRUE, gid)>>)
        /\ UNCHANGED <<diskGID, groupdb, lookups, gidWrites, ipcns, umask,
                       root, cwd, hostmnt, ctrmnt>>

\* ----------------------------------------------------------- SetHostname
\* return syscall.Sethostname(...): on the handler's thread, result returned as is
SetHostname(rt, name, kerr) ==
    /\ last' = Call("SetHostname", rt, [name |-> name, kerr |-> kerr], kerr, 0,
                    <<Ev("sethostname", rt, kerr = "nil", name)>>)
    /\ UNCHANGED <<diskGID, groupdb, lookups, gidWrites, fsuid, fsgid, ipcns,
                   umask, root, cwd, hostmnt, ctrmnt>>

\* ----------------------------------------------------------------- paths
\* The directory found at /mnt/rootfs when looked up from root r while the
\* container file system has mount m: from the host root the walk crosses
\* into the container only while it is mounted on /mnt/rootfs, and otherwise
\* ends in the host directory itself.
Below(r, m) ==
    CASE r = "hostroot" -> (IF m.at = "on_mnt" THEN "rootfs" ELSE "under")
      [] r = "rootfs"   -> "rootfs/mnt/rootfs"
      [] OTHER          -> NoDir

\* The directory a path names for a process with root r and working
\* directory c: "/" is the root, "." the working directory, an absolute path
\* is looked up from the root.  NoDir when there is no such directory.
ResolveIn(path, r, c, m) ==
    IF path = "/" THEN r
    ELSE IF path = "." THEN c
    ELSE Below(r, m)
Resolve(path) == ResolveIn(path, root, cwd, ctrmnt)
\* the kernel lets a chdir succeed only into a directory that exists
Exists(path, r, c, m) == ResolveIn(path, r, c, m) # NoDir

\* The file system a directory belongs to.
Fs(dir) == IF dir \in {"hostroot", "under"} THEN "host" ELSE "ctr"
\* the directory is the root directory of its file system's mount
IsMountRoot(dir) == dir \in {"hostroot", "rootfs"}
\* the mount is in the namespace, on a directory of the other file system
Attached(m) == m.at \in {"on_mnt", "on_slash"}

\* pivot_root(".", ".") is accepted by the kernel only when the working
\* directory is the root of an attached mount other than the root mount and
\* the process's root is the root of the namespace's root mount.
CanPivot(f) ==
    /\ IsMountRoot(f.cwd)
    /\ IsMountRoot(f.root)
    /\ Fs(f.cwd) # Fs(f.root)
    /\ Attached(f.mnt[Fs(f.cwd)])
    /\ f.mnt[Fs(f.root)].at = "root"
\* The mount at the working directory becomes the root mount, the old root
\* mount is put on its "/", and the process's root follows.
Pivot(f) ==
    [f EXCEPT !.root = f.cwd,
              !.mnt = [f.mnt EXCEPT ![Fs(f.cwd)].at = "root", ![Fs(f.root)].at = "on_slash"]]

\* mount(".", "/", MS_MOVE) is accepted only when the working directory is
\* the root of an attached mount and "/" (the process's root, with whatever
\* is mounted on top of it) lies outside that mount.
CanMove(f) ==
    /\ f.cwd = "rootfs"
    /\ f.root = "hostroot"
    /\ f.mnt.ctr.at = "on_mnt"
Move(f) == [f EXCEPT !.mnt.ctr.at = "on_slash"]

\* mount("", ".", MS_SLAVE|MS_REC): the working directory must be the root
\* of a mount; that mount stops sending its mount events to its peers.
CanSlave(f) == IsMountRoot(f.cwd)
Slave(f) == [f EXCEPT !.mnt[Fs(f.cwd)].slave = TRUE]

\* umount2(".", MNT_DETACH): the working directory must be the root of an
\* attached mount; the mount leaves the namespace.
CanDetach(f) == IsMountRoot(f.cwd) /\ Attached(f.mnt[Fs(f.cwd)])
Detach(f) == [f EXCEPT !.mnt[Fs(f.cwd)].at = "detached"]

\* ----------------------------------------------------------------- Chdir
\* mainthread.Chdir(dir): chdir on the worker thread
Chdir(rt, dir, kerr) ==
    LET t == Execute(rt)
    IN  /\ kerr = "nil" => Exists(dir, root, cwd, ctrmnt)
        /\ cwd' = IF kerr = "nil" THEN Resolve(dir) ELSE cwd
        /\ last' = Call("Chdir", rt, [dir |-> dir, kerr |-> kerr], kerr, 0,
                        <<Ev("chdir", t, kerr = "nil", dir)>>)
        /\ UNCHANGED <<diskGID, groupdb, lookups, gidWrites, fsuid, fsgid, ipcns,
                       umask, root, hostmnt, ctrmnt>>

\* ---------------------------------------------------------------- Chroot
RootArgs == {".", "/mnt/rootfs"}
Methods == {"pivot", "move", "chroot", "bind"}

\* The kernel calls of the chosen strategy (the switch on arguments.Method);
\* a method that matches no case runs none.
StrategySteps(method) ==
    CASE method = "pivot" -> <<"open_hostroot", "pivot_root", "fchdir_oldroot",
                               "mount_slave", "umount_detach">>
      [] method = "move"  -> <<"mount_move", "chroot">>
      [] method = "chroot" -> <<"chroot">>
      [] OTHER -> <<>>

\* The step that ends every strategy: syscall.Chdir("/")
FinalStepsNone == <<>>
FinalSteps == <<"chdir_slash">>

\* The calls Chroot makes when none of them fails, in program order.
ChrootSteps(rootArg, method) ==
    (IF rootArg # "." THEN <<"chdir_root">> ELSE <<"getwd">>)
        \o StrategySteps(method) \o FinalSteps

\* A failed os.Getwd() is ignored (root stays "."); every other failure returns.
FatalNever(step) == FALSE
Fatal(step) == step # "getwd"

\* What a successful step does to the process and to the mounts:
\* f = [root, cwd, mnt, held] with mnt = [host, ctr] the two mounts and held
\* the directory oldroot refers to.
StepEffect(step, f, rootArg) ==
    CASE step = "chdir_root"     -> [f EXCEPT !.cwd = ResolveIn(rootArg, f.root, f.cwd, f.mnt.ctr)]
      [] step = "open_hostroot"  -> [f EXCEPT !.held = f.root]
      [] step = "pivot_root"     -> Pivot(f)
      [] step = "fchdir_oldroot" -> [f EXCEPT !.cwd = f.held]
      [] step = "mount_slave"    -> Slave(f)
      [] step = "umount_detach"  -> Detach(f)
      [] step = "mount_move"     -> Move(f)
      [] step = "chroot"         -> [f EXCEPT !.root = f.cwd]
      [] step = "chdir_slash"    -> [f EXCEPT !.cwd = f.root]
      [] OTHER                   -> f

\* Whether the kernel can let the step succeed in state f.
Feasible(step, f, rootArg) ==
    CASE step = "chdir_root"    -> Exists(rootArg, f.root, f.cwd, f.mnt.ctr)
      [] step = "pivot_root"    -> CanPivot(f)
      [] step = "mount_slave"   -> CanSlave(f)
      [] step = "umount_detach" -> CanDetach(f)
      [] step = "mount_move"    -> CanMove(f)
      [] OTHER                  -> TRUE

\* Chroot never pins its thread: its first call runs on the thread rt serving
\* the request, every later one on whatever thread the goroutine is on then.
StepEv(tr, rt, s, ok) == IF tr = <<>> THEN Ev(s, rt, ok, "-") ELSE EvAny(s, ok, "-")

\* Runs the steps in order; `fails` holds the calls the kernel refuses.
\* Returns the process state, the calls made, the error returned ("nil" if
\* none), and whether the kernel can produce this run at all: a call outside
\* `fails` succeeds, which the kernel allows only where Feasible.
RECURSIVE RunChroot(_, _, _, _, _, _)
RunChroot(steps, f, tr, fails, rootArg, rt) ==
    IF steps = <<>> THEN [f |-> f, trace |-> tr, ret |-> "nil", possible |-> TRUE]
    ELSE LET s == Head(steps)
         IN  IF s \in fails
             THEN IF Fatal(s)
                  THEN [f |-> f, trace |-> Append(tr, StepEv(tr, rt, s, FALSE)), ret |-> s,
                        possible |-> TRUE]
                  ELSE RunChroot(Tail(steps), f, Append(tr, StepEv(tr, rt, s, FALSE)),
                                 fails, rootArg, rt)
             ELSE IF ~Feasible(s, f, rootArg)
             THEN [f |-> f, trace |-> tr, ret |-> "nil", possible |-> FALSE]
             ELSE RunChroot(Tail(steps), StepEffect(s, f, rootArg),
                            Append(tr, StepEv(tr, rt, s, TRUE)), fails, rootArg, rt)

\* The sets of calls the kernel may refuse in one Chroot call: os.Getwd or
\* not, and at most one of the calls whose failure ends the handler.
FailSets(steps) ==
    LET names == {steps[i] : i \in 1..Len(steps)}
    IN  {g \cup x : g \in SUBSET (names \cap {"getwd"}),
                     x \in {{}} \cup {{n} : n \in names \ {"getwd"}}}

\* defer oldroot.Close(): runs on every return once the descriptor was opened
DeferredCloseOnSuccess(run) ==
    IF run.f.held # "none" /\ run.ret = "nil"
    THEN Append(run.trace, EvAny("close", TRUE, "-"))
    ELSE run.trace
DeferredClose(run) ==
    IF run.f.held # "none" THEN Append(run.trace, EvAny("close", TRUE, "-"))
    ELSE run.trace

Chroot(rt, rootArg, method, fails) ==
    LET f0  == [root |-> root, cwd |-> cwd, mnt |-> [host |-> hostmnt, ctr |-> ctrmnt],
                held |-> "none"]
        run == RunChroot(ChrootSteps(rootArg, method), f0, <<>>, fails, rootArg, rt)
    IN  /\ run.possible
        /\ root' = run.f.root
        /\ cwd' = run.f.cwd
        /\ hostmnt' = run.f.mnt.host
        /\ ctrmnt' = run.f.mnt.ctr
        /\ last' = Call("Chroot", rt,
                        [root |-> rootArg, method |-> method, fails |-> fails,
                         cwd0 |-> cwd, root0 |-> root, mnt0 |-> ctrmnt],
                        run.ret, 0, DeferredClose(run))
        /\ UNCHANGED <<diskGID, groupdb, lookups, gidWrites, fsuid, fsgid, ipcns, umask>>

\* ------------------------------------------------------------ LoopDevice
\* Strings the code inspects character by character are sequences of characters.
FdPrefix == <<"/", "p", "r", "o", "c", "/", "s", "e", "l", "f", "/", "f", "d", "/">>
ImagePath == <<"/", "i", "m", "g">>

FdSuffixes == { <<"7">>, <<"0", "1", "2">>, <<"a", "b", "c">>, <<>>, <<"-", "1">>,
                <<"7", "x">>,
                <<"4", "2", "9", "4", "9", "6", "7", "2", "9", "5">>,
                <<"4", "2", "9", "4", "9", "6", "7", "2", "9", "6">> }
Images == {ImagePath} \cup {FdPrefix \o x : x \in FdSuffixes}

\* strings.HasPrefix / strings.TrimPrefix
HasPrefix(str, prefix) ==
    Len(str) >= Len(prefix) /\ SubSeq(str, 1, Len(prefix)) = prefix
TrimPrefix(str, prefix) ==
    IF HasPrefix(str, prefix) THEN SubSeq(str, Len(prefix) + 1, Len(str)) ELSE str

DigitVal(c) ==
    CASE c = "0" -> 0 [] c = "1" -> 1 [] c = "2" -> 2 [] c = "3" -> 3 [] c = "4" -> 4
      [] c = "5" -> 5 [] c = "6" -> 6 [] c = "7" -> 7 [] c = "8" -> 8 [] c = "9" -> 9
      [] OTHER -> -1

\* strconv.ParseUint(s, 10, 32).  The value is kept as two 16-bit limbs
\* <<hi, lo>> (value = hi * 2^16 + lo), so that 2^32 - 1 is representable.
\* Result: [err |-> "nil", val |-> <<hi, lo>>] or [err |-> "syntax" / "range"].
\* bitSize 32: the value must stay below 2^32 = Limb * Limb.
Limb == 256 * 256
HiLimit == Limb

RECURSIVE ParseDigits(_, _, _)
ParseDigits(str, hi, lo) ==
    IF str = <<>> THEN [err |-> "nil", val |-> <<hi, lo>>]
    ELSE LET d == DigitVal(Head(str))
         IN  IF d < 0 THEN [err |-> "syntax", val |-> <<0, 0>>]
             ELSE LET lo1 == lo * 10 + d
                      hi1 == hi * 10 + (lo1 \div Limb)
                  IN  IF hi1 >= HiLimit THEN [err |-> "range", val |-> <<0, 0>>]
                      ELSE ParseDigits(Tail(str), hi1, lo1 % Limb)

ParseUintLenient(str) == ParseDigits(str, 0, 0)
ParseUint(str) ==
    IF str = <<>> THEN [err |-> "syntax", val |-> <<0, 0>>]
    ELSE ParseDigits(str, 0, 0)

\* if diskGID == -1 { lookup "disk"; diskGID = gid, or 0 when the lookup fails }
\* Result: the cached gid and whether a lookup was made.
ResolveDiskGIDAlways(cached, db) ==
    [gid |-> IF db = <<>> THEN 0 ELSE db[1], looked |-> TRUE]
ResolveDiskGID(cached, db) ==
    IF cached = -1
    THEN [gid |-> IF db = <<>> THEN 0 ELSE db[1], looked |-> TRUE]
    ELSE [gid |-> cached, looked |-> FALSE]

\* The image file: an adopted descriptor, or a path opened now.
\* Result: [err, fd, trace]; fd tells an adopted descriptor (with its number)
\* from the descriptor os.OpenFile returned.
NoFd == [kind |-> "none", val |-> <<0, 0>>]
OpenedFd == [kind |-> "opened", val |-> <<0, 0>>]
AdoptedFd(v) == [kind |-> "adopted", val |-> v]
OpenImage(rt, image, openOk) ==
    IF HasPrefix(image, FdPrefix)
    THEN LET p == ParseUint(TrimPrefix(image, FdPrefix))
         IN  IF p.err # "nil"
             THEN [err |-> "failed to convert image file descriptor", fd |-> NoFd,
                   trace |-> <<>>]
             ELSE [err |-> "nil", fd |-> AdoptedFd(p.val), trace |-> <<>>]
    ELSE IF openOk
         THEN [err |-> "nil", fd |-> OpenedFd, trace |-> <<Ev("open", rt, TRUE, "-")>>]
         ELSE [err |-> "could not open image file", fd |-> NoFd,
               trace |-> <<Ev("open", rt, FALSE, "-")>>]

\* The deferred calls, in the order they run (last deferred first):
\* Setfsgid(os.Getgid()), Setfsuid(os.Getuid()), UnlockOSThread.
RestoreIds(rt) ==
    <<Ev("setfsgid", rt, TRUE, Gid), Ev("setfsuid", rt, TRUE, Uid),
      Ev("unlock", rt, TRUE, "-")>>

\* The thread's fs ids after the events of a trace, starting from (u, g).
RECURSIVE FsAfter(_, _, _)
FsAfter(tr, u, g) ==
    IF tr = <<>> THEN <<u, g>>
    ELSE LET e == Head(tr)
         IN  FsAfter(Tail(tr),
                     IF e.sys = "setfsuid" THEN e.arg ELSE u,
                     IF e.sys = "setfsgid" THEN e.arg ELSE g)

LoopDevice(rt, image, openOk, attachOk) ==
    LET img == OpenImage(rt, image, openOk)
        pre == [fsuid |-> fsuid[rt], fsgid |-> fsgid[rt], diskGID |-> diskGID,
                groupdb |-> groupdb]
        args == [image |-> image, openOk |-> openOk, attachOk |-> attachOk, pre |-> pre]
    IN  IF img.err # "nil"
        THEN /\ last' = Call("LoopDevice", rt, args, img.err, -1, img.trace)
             /\ UNCHANGED <<diskGID, groupdb, lookups, gidWrites, fsuid, fsgid, ipcns,
                            umask, root, cwd, hostmnt, ctrmnt>>
        ELSE LET res == ResolveDiskGID(diskGID, groupdb)
                 tr  == img.trace
                        \o (IF res.looked THEN <<Ev("getgrnam", rt, groupdb # <<>>, "disk")>>
                            ELSE <<>>)
                        \o <<Ev("lock", rt, TRUE, "-"),
                             Ev("setfsuid", rt, TRUE, 0),
                             Ev("setfsgid", rt, TRUE, res.gid),
                             Ev("attach", rt, attachOk, img.fd)>>
                        \o RestoreIds(rt)
                 ids == FsAfter(tr, fsuid[rt], fsgid[rt])
             IN  /\ (res.looked => lookups < MaxLookups)
                 /\ diskGID' = res.gid
                 /\ lookups' = IF res.looked THEN lookups + 1 ELSE lookups
                 /\ gidWrites' = IF res.looked THEN gidWrites + 1 ELSE gidWrites
                 /\ fsuid' = [fsuid EXCEPT ![rt] = ids[1]]
                 /\ fsgid' = [fsgid EXCEPT ![rt] = ids[2]]
                 /\ last' = Call("LoopDevice", rt, args,
                                 IF attachOk THEN "nil"
                                 ELSE "could not attach image file to loop device",
                                 IF attachOk THEN 0 ELSE -1, tr)
                 /\ UNCHANGED <<groupdb, ipcns, umask, root, cwd, hostmnt, ctrmnt>>

GroupEntries == {<<>>} \cup {<<g>> : g \in FsIds}

\* The group database is outside the server: the gid of "disk" may change,
\* or the group may disappear, at any time.
GroupDbChange(db) ==
    /\ db # groupdb
    /\ groupdb' = db
    /\ last' = Call("GroupDbChange", MainThread, [db |-> db], "nil", 0, <<>>)
    /\ UNCHANGED <<diskGID, lookups, gidWrites, fsuid, fsgid, ipcns, umask,
                   root, cwd, hostmnt, ctrmnt>>

\* --------------------------------------------------------------- Decrypt
\* The IPC namespace /proc/<pid>/ns/ipc names: the server's own pid names the
\* namespace of its main thread, the master's pid the host namespace.
NsOfPid(pid) == IF pid = SelfPid THEN ipcns[MainThread] ELSE "host"

\* if arguments.MasterPid > 0
EntersHostNsNonNegative(masterPid) == masterPid >= 0
EntersHostNs(masterPid) == masterPid > 0

\* return to the container IPC namespace if required: the step after the unlock
\* of a call that joined the host namespace.  Result: [ns, trace, err].
Rejoin(rt, unlockOk, rejoinOk) ==
    IF rejoinOk
    THEN [ns |-> NsOfPid(SelfPid), trace |-> <<Ev("setns", rt, TRUE, SelfPid)>>,
          err |-> "nil"]
    ELSE [ns |-> "host", trace |-> <<Ev("setns", rt, FALSE, SelfPid)>>,
          err |-> "while joining container IPC namespace"]

Decrypt(rt, masterPid, hostJoinOk, unlockOk, rejoinOk) ==
    LET args == [masterPid |-> masterPid, hostJoinOk |-> hostJoinOk,
                 unlockOk |-> unlockOk, rejoinOk |-> rejoinOk, ns0 |-> ipcns[rt]]
        unlockErr == IF unlockOk THEN "nil" ELSE "unlock failed"
        mapped == IF unlockOk THEN "/dev/mapper/crypt0" ELSE "/dev/mapper/"
        open == Ev("cryptopen", rt, unlockOk, "-")
    IN  IF EntersHostNs(masterPid)
        THEN IF ~hostJoinOk
             THEN /\ last' = Call("Decrypt", rt, args,
                                  "while joining host IPC namespace", "",
                                  <<Ev("lock", rt, TRUE, "-"),
                                    Ev("setns", rt, FALSE, masterPid),
                                    Ev("unlock", rt, TRUE, "-")>>)
                  /\ UNCHANGED <<diskGID, groupdb, lookups, gidWrites, fsuid, fsgid,
                                 ipcns, umask, root, cwd, hostmnt, ctrmnt>>
             ELSE LET back == Rejoin(rt, unlockOk, rejoinOk)
                  IN  /\ ipcns' = [ipcns EXCEPT ![rt] = back.ns]
                      /\ last' = Call("Decrypt", rt, args,
                                      IF back.err # "nil" THEN back.err ELSE unlockErr,
                                      IF back.err # "nil" THEN "" ELSE mapped,
                                      <<Ev("lock", rt, TRUE, "-"),
                                        Ev("setns", rt, TRUE, masterPid), open>>
                                      \o back.trace
                                      \o <<Ev("unlock", rt, TRUE, "-")>>)
                      /\ UNCHANGED <<diskGID, groupdb, lookups, gidWrites, fsuid, fsgid,
                                     umask, root, cwd, hostmnt, ctrmnt>>
        ELSE /\ last' = Call("Decrypt", rt, args, unlockErr, mapped, <<open>>)
             /\ UNCHANGED <<diskGID, groupdb, lookups, gidWrites, fsuid, fsgid, ipcns,
                            umask, root, cwd, hostmnt, ctrmnt>>

\* ------------------------------------------- build engine: MonitorContainer
\* MonitorContainer(pid, signals) loops on the signal stream: SIGCHLD makes
\* it try a non-blocking wait4 on pid, any other signal is sent on to pid.
\* The environment delivers signals on the stream and lets the child exit.
ChildPid == 9
MaxSignals == 3
SignalKinds == {"SIGCHLD", "SIGTERM", "SIGINT"}
ExitCodes == {0, 3}

\* syscall.WaitStatus of a process that exited with the given code
WaitStatus(code) == code * 256

\* wait4(pid, &status, WNOHANG): -1 and an error if the kernel refuses, 0 while
\* pid has not changed state, pid and its status once it has exited.
Wait4(c, status, ok) ==
    IF ~ok THEN [wpid |-> -1, status |-> status, err |-> "ECHILD"]
    ELSE IF c.state = "exited" THEN [wpid |-> ChildPid, status |-> c.status, err |-> "nil"]
    ELSE [wpid |-> 0, status |-> status, err |-> "nil"]

\* case syscall.SIGCHLD of the switch
IsChildSignalNever(s) == FALSE
IsChildSignal(s) == s = "SIGCHLD"

\* the loop goes on (continue) unless wait4 returned the tracked pid
ReapDoneAlways(wpid) == TRUE
ReapDoneNever(wpid) == FALSE
ReapDone(wpid) == wpid = ChildPid

WaitErr(e) == <<"error while waiting child", e>>
KillErr(s) == <<"interrupted by signal", s>>
NoErr == <<"nil", "-">>

\* one turn of the loop: receive a signal, then reap or forward
MonitorContainer(killOk, waitOk) ==
    /\ mon.pc = "running"
    /\ signals # <<>>
    /\ LET s == Head(signals)
           w == Wait4(child, mon.status, waitOk)
           got == [mon EXCEPT !.recv = Append(@, s)]
       IN  /\ signals' = Tail(signals)
           /\ IF IsChildSignal(s)
              THEN LET tried == [got EXCEPT !.reaps = Append(@, w.wpid), !.status = w.status]
                   IN  IF w.err # "nil"
                       THEN /\ mon' = [tried EXCEPT !.pc = "returned", !.err = WaitErr(w.err)]
                            /\ UNCHANGED child
                       ELSE IF ~ReapDone(w.wpid)
                       THEN /\ mon' = tried
                            /\ UNCHANGED child
                       ELSE /\ mon' = [tried EXCEPT !.pc = "returned", !.err = NoErr]
                            /\ child' = [child EXCEPT !.state =
                                            IF w.wpid = ChildPid THEN "reaped" ELSE @]
              ELSE /\ UNCHANGED child
                   /\ IF killOk
                      THEN mon' = [got EXCEPT !.kills = Append(@, [sig |-> s, ok |-> TRUE])]
                      ELSE mon' = [got EXCEPT !.kills = Append(@, [sig |-> s, ok |-> FALSE]),
                                              !.pc = "returned", !.err = KillErr(s)]
    /\ UNCHANGED <<build, registry, found>>
    /\ UNCHANGED srvVars

\* a signal arrives on the stream while MonitorContainer is running
Deliver(s) ==
    /\ mon.pc = "running"
    /\ child.sent < MaxSignals
    /\ signals' = Append(signals, s)
    /\ child' = [child EXCEPT !.sent = @ + 1,
                              !.notified = @ \/ (s = "SIGCHLD" /\ child.state = "exited")]
    /\ UNCHANGED <<mon, build, registry, found>>
    /\ UNCHANGED srvVars

\* the tracked process terminates with some exit code
ChildExit(code) ==
    /\ child.state = "running"
    /\ child' = [child EXCEPT !.state = "exited", !.status = WaitStatus(code)]
    /\ UNCHANGED <<signals, mon, build, registry, found>>
    /\ UNCHANGED srvVars

\* --------------------------------------------- build engine: StartProcess
\* StartProcess cleans the environment, runs the %post and %test sections
\* the configuration selects, and ends the process with os.Exit(0).
Scripts == {"", "make"}
SectionSets == SUBSET {"post", "test"}
Environments ==
    {<<>>, <<"PATH", "SINGULARITY_ROOTFS">>, <<"SINGULARITY_ENVIRONMENT", "HOME">>}
KeepSets == {{}, {"PATH", "HOME"}}
BuildConfigs ==
    [sections : SectionSets, post : Scripts, test : Scripts, noTest : BOOLEAN,
     env : Environments]

Step(name, arg) == [step |-> name, arg |-> arg]

\* EngineConfig.RunSection(name): the section is among those selected
RunSection(cfg, name) == name \in cfg.sections

\* env.SetContainerEnv: puts back the variables it finds relevant
SetContainerEnv(environment, keep) == SelectSeq(environment, LAMBDA v : v \in keep)

\* cleanEnv: empty the environment, let SetContainerEnv add variables back,
\* then expose SINGULARITY_ROOTFS and SINGULARITY_ENVIRONMENT again
cleanEnv(environment, keep) ==
    SetContainerEnv(environment, keep) \o
    SelectSeq(environment,
              LAMBDA v : v = "SINGULARITY_ROOTFS" \/ v = "SINGULARITY_ENVIRONMENT")

PostSelected(cfg) == RunSection(cfg, "post") /\ cfg.post # ""
TestSelectedDespiteNoTest(cfg) == RunSection(cfg, "test") /\ cfg.test # ""
TestSelected(cfg) == RunSection(cfg, "test") /\ ~cfg.noTest /\ cfg.test # ""

\* runScriptSection(name, section, setEnv)
runScriptSection(name, script) == <<Step("runScriptSection", name)>>

\* the calls StartProcess makes, in program order
StartSteps(cfg) ==
    <<Step("cleanEnv", "-")>> \o
    (IF PostSelected(cfg) THEN runScriptSection("post", cfg.post) ELSE <<>>) \o
    (IF TestSelected(cfg) THEN runScriptSection("test", cfg.test) ELSE <<>>) \o
    <<Step("os.Exit", "0")>>

NotStarted == [pc |-> "ready", cfg |-> <<>>, env |-> <<>>, trace |-> <<>>, exit |-> -1]

StartProcess(cfg, keep) ==
    /\ build.pc = "ready"
    /\ build' = [pc |-> "exited", cfg |-> cfg, env |-> cleanEnv(cfg.env, keep),
                 trace |-> StartSteps(cfg), exit |-> 0]
    /\ UNCHANGED <<signals, child, mon, registry, found>>
    /\ UNCHANGED srvVars

\* ------------------------------------------------------- engine registry
\* The registry maps an engine name to its lifecycle operations and to its
\* RPC operation catalogue.  The OCI engine registers itself when the
\* package is loaded; the supervisor looks engines up by name.
Name == "oci"
EngineNames == {Name, "singularity", "imgbuild", ""}
OciOperations == "oci.EngineOperations"
OciMethods == "ociserver.Methods"
NotFound == [ok |-> FALSE, ops |-> "none", rpc |-> "none"]
EmptyRegistry ==
    [ops |-> [n \in EngineNames |-> "none"], rpc |-> [n \in EngineNames |-> "none"],
     loaded |-> {}]

\* engine.RegisterOperations(name, operations)
RegisterOperations(reg, name, operations) == [reg EXCEPT !.ops[name] = operations]
\* engine.RegisterRPCMethods(name, methods)
RegisterRPCMethods(reg, name, methods) == [reg EXCEPT !.rpc[name] = methods]
\* lookup(name): the registered pair, or NotFound
LookupIn(reg, name) ==
    IF reg.ops[name] = "none" \/ reg.rpc[name] = "none" THEN NotFound
    ELSE [ok |-> TRUE, ops |-> reg.ops[name], rpc |-> reg.rpc[name]]

\* the names init() registers under
OperationsName == Name
RPCMethodsNameOther == "ociserver"
RPCMethodsName == Name

\* func init() of package oci
OciInit ==
    /\ build.pc = "ready"
    /\ Name \notin registry.loaded
    /\ registry' =
          [RegisterRPCMethods(RegisterOperations(registry, OperationsName, OciOperations),
                              RPCMethodsName, OciMethods)
              EXCEPT !.loaded = @ \cup {Name}]
    /\ UNCHANGED <<signals, child, mon, build, found>>
    /\ UNCHANGED srvVars

NoLookup == [name |-> "-", res |-> NotFound, reg |-> EmptyRegistry]

\* the supervisor selects an engine by name
Lookup(name) ==
    /\ build.pc = "ready"
    /\ found' = [name |-> name, res |-> LookupIn(registry, name), reg |-> registry]
    /\ UNCHANGED <<signals, child, mon, build, registry>>
    /\ UNCHANGED srvVars

\* ------------------------------------------------------------------ Init
\* A freshly started server: diskGID unresolved; every thread carries the
\* process's effective ids as fs ids (the real ids, or 0 after a set-id start)
\* and sits in the server's own IPC namespace; the process is in the host root.
Init ==
    /\ diskGID = -1
    /\ groupdb = <<Gid>>
    /\ lookups = 0
    /\ gidWrites = 0
    /\ \E setid \in BOOLEAN :
          /\ fsuid = [t \in Threads |-> IF setid THEN 0 ELSE Uid]
          /\ fsgid = [t \in Threads |-> IF setid THEN 0 ELSE Gid]
    /\ ipcns = [t \in Threads |-> "container"]
    /\ umask \in Masks
    /\ root = "hostroot"
    /\ cwd = "hostroot"
    /\ hostmnt = Mnt("root", FALSE)
    /\ ctrmnt = Mnt("on_mnt", FALSE)
    /\ last = Call("none", MainThread, [x |-> 0], "nil", 0, <<>>)
    /\ signals = <<>>
    /\ child = [state |-> "running", status |-> 0, sent |-> 0, notified |-> FALSE]
    /\ mon = [pc |-> "running", status |-> 0, err |-> NoErr,
              recv |-> <<>>, kills |-> <<>>, reaps |-> <<>>]
    /\ build = NotStarted
    /\ registry = EmptyRegistry
    /\ found = NoLookup

\* Init with one of its independent choices fixed.
InitRealIds == Init /\ fsuid[MainThread] = Uid
InitMask == Init /\ umask = 18
InitPlain == InitRealIds /\ umask = 18

\* ------------------------------------------------------------------ Next
Targets == {"/new/proc"}
Hostnames == {"box"}
ChdirDirs == {"/", "/mnt/rootfs"}

DoMount ==
    /\ \E rt \in HandlerThreads, tg \in Targets, k \in Outcomes : Mount(rt, tg, k)
    /\ UNCHANGED engVars
DoMkdir ==
    /\ \E rt \in HandlerThreads, pm \in Perms, k \in {"nil", "EPERM"} : Mkdir(rt, pm, k)
    /\ UNCHANGED engVars
DoChdir ==
    /\ \E rt \in HandlerThreads, d \in ChdirDirs, k \in {"nil", "ENOENT"} : Chdir(rt, d, k)
    /\ UNCHANGED engVars
DoSetHostname ==
    /\ \E rt \in HandlerThreads, h \in Hostnames, k \in {"nil", "EPERM"} : SetHostname(rt, h, k)
    /\ UNCHANGED engVars
DoChroot ==
    /\ \E rt \in HandlerThreads, r \in RootArgs, m \in Methods :
          \E fails \in FailSets(ChrootSteps(r, m)) : Chroot(rt, r, m, fails)
    /\ UNCHANGED engVars
DoSetFsID ==
    /\ \E rt \in HandlerThreads, u \in FsIds, g \in FsIds : SetFsID(rt, u, g)
    /\ UNCHANGED engVars
DoLoopDevice ==
    /\ \E rt \in HandlerThreads, im \in Images, o \in BOOLEAN, a \in BOOLEAN :
          LoopDevice(rt, im, o, a)
    /\ UNCHANGED engVars
DoGroupDbChange ==
    /\ \E db \in GroupEntries : GroupDbChange(db)
    /\ UNCHANGED engVars
DoDecrypt ==
    /\ \E rt \in HandlerThreads, mp \in MasterPids, hj \in BOOLEAN, u \in BOOLEAN, rj \in BOOLEAN :
          Decrypt(rt, mp, hj, u, rj)
    /\ UNCHANGED engVars

\* Requests that act on the process's file system view.
NextFs == DoMount \/ DoMkdir \/ DoChdir \/ DoChroot \/ DoSetHostname
\* Requests that act on fs identity, and changes of the group database.
NextId == DoSetFsID \/ DoLoopDevice \/ DoGroupDbChange
\* Requests that act on namespace membership.
NextNs == DoDecrypt

Next == NextFs \/ NextId \/ NextNs

\* The whole server.  The specifications below restrict it to the requests
\* that share state, from the initial states that matter to them.
Spec == Init /\ [][Next]_vars
SpecFs == InitRealIds /\ [][NextFs]_vars
SpecId == InitMask /\ [][NextId]_vars
SpecNs == Init /\ [][NextNs]_vars

\* MonitorContainer with its environment.  The call is a goroutine blocked on
\* the stream, so it takes its turn whenever a signal is waiting.
DoMonitorContainer == \E k \in BOOLEAN, w \in BOOLEAN : MonitorContainer(k, w)
DoDeliver == \E s \in SignalKinds : Deliver(s)
DoChildExit == \E code \in ExitCodes : ChildExit(code)
NextMonitor == DoMonitorContainer \/ DoDeliver \/ DoChildExit
SpecMonitor == InitPlain /\ [][NextMonitor]_vars
SpecMonitorFair == SpecMonitor /\ WF_vars(DoMonitorContainer)

\* StartProcess of the build engine, over every configuration.
DoStartProcess == \E cfg \in BuildConfigs, keep \in KeepSets : StartProcess(cfg, keep)
NextBuild == DoStartProcess
SpecBuild == InitPlain /\ [][NextBuild]_vars

\* The engines of one process: load-time registration, selection by name,
\* and the start of the build engine, which ends the process.
DoOciInit == OciInit
DoLookup == \E n \in EngineNames : Lookup(n)
NextEngine == DoOciInit \/ DoLookup \/ DoStartProcess
SpecEngine == InitPlain /\ [][NextEngine]_vars

\* ================================================================ claims
\* Helpers over the record of the most recent request.
Served(op) == last.op = op
Events == {last.trace[i] : i \in 1..Len(last.trace)}
Made(sys) == \E e \in Events : e.sys = sys
Names(tr) == [i \in 1..Len(tr) |-> tr[i].sys]
\* the trace holds, at position i, a call sys on thread t with outcome ok and argument arg
IsEv(i, sys, t, ok, arg) ==
    /\ last.trace[i].sys = sys /\ last.trace[i].t = {t}
    /\ last.trace[i].ok = ok /\ last.trace[i].arg = arg
Strategies == {"pivot", "move", "chroot"}

\* ---- C1
\* The directory the request asks to become the root: the directory the
\* process was in for ".", the directory the path named otherwise.
RequestedRoot ==
    IF last.args.root = "." THEN last.args.cwd0
    ELSE ResolveIn(last.args.root, last.args.root0, last.args.cwd0, last.args.mnt0)

\* C1: a Chroot call that returns success, with strategy pivot, move or
\* chroot and root "." or a path, leaves the working directory at the root
\* directory, and that root is the requested one.
C1_ChrootSuccessCwdIsNewRoot ==
    (Served("Chroot") /\ last.args.method \in Strategies /\ last.ret = "nil")
        => (cwd = root /\ root = RequestedRoot)

C1_Witness ==
    /\ Served("Chroot") /\ last.args.method = "pivot" /\ last.ret = "nil"
    /\ last.args.root = "/mnt/rootfs" /\ last.args.root0 = "hostroot"
    /\ root = "rootfs" /\ cwd = "rootfs"

\* ---- C2
\* C2: after any LoopDevice call the serving thread's fs-uid and fs-gid equal
\* their values immediately before the call.
C2_LoopDeviceKeepsFsIds ==
    Served("LoopDevice")
        => (fsuid[last.t] = last.args.pre.fsuid /\ fsgid[last.t] = last.args.pre.fsgid)

\* ---- C3
\* Kernel calls that read or change per-thread kernel state.
PerThreadCalls ==
    {"mount", "umask", "mkdir", "chdir", "chdir_root", "pivot_root", "fchdir_oldroot",
     "mount_slave", "umount_detach", "mount_move", "chroot", "chdir_slash",
     "setfsuid", "setfsgid", "setns"}

\* C3: every call that reads or changes per-thread kernel state, of every
\* request, runs on the executor's one thread and can run on no other.
C3_AllOnExecutorThread ==
    \A e \in Events : e.sys \in PerThreadCalls => e.t = {MainThread}

\* Position of the first event named sys in the trace (0 if none).
FirstAt(sys) ==
    IF Made(sys) THEN CHOOSE i \in 1..Len(last.trace) :
                         /\ last.trace[i].sys = sys
                         /\ \A j \in 1..(i - 1) : last.trace[j].sys # sys
    ELSE 0

\* ---- C4
HostJoinErr == "while joining host IPC namespace"
RejoinErr == "while joining container IPC namespace"

\* C4: after every Decrypt call with MasterPid > 0 the serving
\* thread is in the server's own IPC namespace.
C4_DecryptRestoresNs ==
    (Served("Decrypt") /\ last.args.masterPid > 0)
        => ipcns[last.t] = NsOfPid(SelfPid)

\* ---- C5
\* The calls of each strategy as the claim lists them, in order.
ListedSteps(rootArg, method) ==
    (IF rootArg = "." THEN <<>> ELSE <<"chdir_root">>)
    \o (IF method = "pivot"
        THEN <<"open_hostroot", "pivot_root", "fchdir_oldroot", "mount_slave", "umount_detach">>
        ELSE IF method = "move" THEN <<"mount_move", "chroot">>
        ELSE IF method = "chroot" THEN <<"chroot">> ELSE <<>>)
    \o <<"chdir_slash">>

\* The listed steps a call made: its trace without the working-directory
\* query and the release of the held descriptor.
ListedMade == SelectSeq(last.trace, LAMBDA e : e.sys \notin {"getwd", "close"})

\* C5: in a Chroot call a failed step is the last step made and the call
\* returns an error; the call returns success only after every step of the
\* strategy was made and succeeded.
C5_ChrootStopsAtFirstFailure ==
    Served("Chroot") =>
        LET made == ListedMade
            want == ListedSteps(last.args.root, last.args.method)
        IN  /\ \A i \in 1..Len(made) : ~made[i].ok => (i = Len(made) /\ last.ret # "nil")
            /\ Len(made) <= Len(want)
            /\ Names(made) = SubSeq(want, 1, Len(made))
            /\ last.ret = "nil" => (Len(made) = Len(want) /\ \A i \in 1..Len(made) : made[i].ok)
            /\ last.ret # "nil" => ~made[Len(made)].ok

\* a pivot to "." whose working-directory query failed and was ignored, and
\* which stopped at the change of directory into the held descriptor
C5_Witness ==
    /\ Served("Chroot") /\ last.args.method = "pivot" /\ last.ret # "nil"
    /\ Names(last.trace) = <<"getwd", "open_hostroot", "pivot_root",
                             "fchdir_oldroot", "close">>
    /\ ~last.trace[1].ok
    /\ last.trace[3].ok
    /\ ~last.trace[4].ok

\* ---- C6
ConvertErr == "failed to convert image file descriptor"
Digits == {"0", "1", "2", "3", "4", "5", "6", "7", "8", "9"}
IsDecimal(str) == str # <<>> /\ \A i \in 1..Len(str) : str[i] \in Digits

RECURSIVE StripZeros(_)
StripZeros(str) ==
    IF Len(str) > 1 /\ Head(str) = "0" THEN StripZeros(Tail(str)) ELSE str

\* digit strings of equal length, compared as numbers
RECURSIVE DigitsLeq(_, _)
DigitsLeq(a, b) ==
    IF a = <<>> THEN TRUE
    ELSE IF DigitVal(Head(a)) # DigitVal(Head(b)) THEN DigitVal(Head(a)) < DigitVal(Head(b))
    ELSE DigitsLeq(Tail(a), Tail(b))

MaxUint32Digits == <<"4", "2", "9", "4", "9", "6", "7", "2", "9", "5">>
\* the decimal number str is at most 2^32 - 1
FitsUint32(str) ==
    LET d == StripZeros(str)
    IN  \/ Len(d) < Len(MaxUint32Digits)
        \/ Len(d) = Len(MaxUint32Digits) /\ DigitsLeq(d, MaxUint32Digits)

\* the value of a decimal number below 2^32, as <<value \div 2^16, value % 2^16>>
RECURSIVE DecValue(_, _)
DecValue(str, acc) ==
    IF str = <<>> THEN acc
    ELSE LET lo == acc[2] * 10 + DigitVal(Head(str))
         IN  DecValue(Tail(str), <<acc[1] * 10 + lo \div Limb, lo % Limb>>)

FdReference == Served("LoopDevice") /\ HasPrefix(last.args.image, FdPrefix)
FdSuffix == TrimPrefix(last.args.image, FdPrefix)
NothingDone ==
    /\ last.trace = <<>>
    /\ fsuid[last.t] = last.args.pre.fsuid /\ fsgid[last.t] = last.args.pre.fsgid
    /\ diskGID = last.args.pre.diskGID
Adopted(str) ==
    /\ last.ret # ConvertErr
    /\ ~Made("open")
    /\ \E e \in Events : e.sys = "attach" /\ e.arg = AdoptedFd(DecValue(str, <<0, 0>>))

\* C6 as stated: a reference '/proc/self/fd/N' with N a decimal integer adopts
\* descriptor N without an open; any other suffix is an error with nothing done.
C6_DecimalFdAdopted ==
    FdReference => IF IsDecimal(FdSuffix) THEN Adopted(FdSuffix)
                   ELSE last.ret = ConvertErr /\ NothingDone

\* C6 amended: N must be an unsigned decimal integer not above 2^32 - 1 to be
\* adopted; every other suffix, a larger number included, is the error with no
\* escalation, no pinning and no attachment.
C6_FdReferenceParsed ==
    FdReference => IF IsDecimal(FdSuffix) /\ FitsUint32(FdSuffix) THEN Adopted(FdSuffix)
                   ELSE last.ret = ConvertErr /\ NothingDone

C6_Witness ==
    /\ FdReference /\ FdSuffix = <<"0", "1", "2">>
    /\ \E e \in Events : e.sys = "attach" /\ e.arg = AdoptedFd(<<0, 12>>)
    /\ ~Made("open")

\* ---- C7
ReachedAttachment == Served("LoopDevice") /\ Made("attach")

\* C7: the "disk" group is looked up at most once and diskGID written at most
\* once; a call that reaches attachment leaves diskGID resolved, escalates to
\* the cached gid, keeps a gid cached by an earlier call whatever the group
\* database says now, and caches 0 when its own lookup fails.
C7_DiskGidResolvedOnce ==
    /\ lookups <= 1
    /\ gidWrites <= 1
    /\ (diskGID = -1) = (lookups = 0)
    /\ ReachedAttachment =>
          /\ diskGID # -1
          /\ \E i \in 1..Len(last.trace) : IsEv(i, "setfsgid", last.t, TRUE, diskGID)
                                           /\ i < FirstAt("attach")
          /\ last.args.pre.diskGID # -1
                => (diskGID = last.args.pre.diskGID /\ ~Made("getgrnam"))
          /\ last.args.pre.diskGID = -1
                => /\ Made("getgrnam")
                   /\ diskGID = IF last.args.pre.groupdb = <<>> THEN 0
                                ELSE last.args.pre.groupdb[1]

C7_Witness ==
    /\ ReachedAttachment
    /\ last.args.pre.diskGID = 0
    /\ last.args.pre.groupdb = <<1>>
    /\ diskGID = 0

\* ---- C8
\* C8: a Decrypt call with MasterPid <= 0 makes no namespace join and does not
\* pin the thread; the thread's IPC namespace is the one it had before the
\* call, whether the unlock succeeded or failed.
C8_DecryptWithoutMasterLeavesNs ==
    (Served("Decrypt") /\ last.args.masterPid <= 0)
        => /\ ~Made("setns") /\ ~Made("lock") /\ ~Made("unlock")
           /\ Names(last.trace) = <<"cryptopen">>
           /\ ipcns[last.t] = last.args.ns0
           /\ last.ret = IF last.args.unlockOk THEN "nil" ELSE "unlock failed"

C8_Witness ==
    /\ Served("Decrypt") /\ last.args.masterPid = 0 /\ last.ret = "unlock failed"
    /\ Names(last.trace) = <<"cryptopen">>

\* ---- C9
\* C9: Mkdir makes the directory while the creation mask is zero, so a created
\* directory has exactly the requested mode, and the mask after the call is
\* the mask before it, whether the creation succeeded or failed.
C9_MkdirExactModeMaskRestored ==
    Served("Mkdir") =>
        /\ umask = last.args.oldmask
        /\ Names(last.trace) = <<"umask", "mkdir", "umask">>
        /\ last.trace[1].arg = 0
        /\ last.trace[3].arg = last.args.oldmask
        /\ (last.ret = "nil") = last.trace[2].ok
        /\ last.ret = "nil" => last.reply = last.args.perm

C9_Witness ==
    /\ Served("Mkdir") /\ last.args.perm = 511 /\ last.args.oldmask = 18
    /\ last.ret = "nil" /\ last.reply = 511 /\ umask = 18

\* ---- C10
\* C10: the outcome Mount hands to its caller (the reply) is the kernel's:
\* an error exactly when the mount failed, and then the kernel's error; the
\* handler itself reports no error, and the mount is attempted once.
C10_MountOutcomeIsKernels ==
    Served("Mount") =>
        /\ last.reply = last.args.kerr
        /\ last.ret = "nil"
        /\ Len(last.trace) = 1
        /\ last.trace[1].sys = "mount"
        /\ last.trace[1].ok = (last.args.kerr = "nil")

C10_Witness ==
    /\ Served("Mount") /\ last.args.kerr = "ENOENT" /\ last.reply = "ENOENT"
    /\ Len(last.trace) = 1 /\ ~last.trace[1].ok

\* --- Chroot: the pivot strategy
\* a is made, and b is made only after it
Before(a, b) == FirstAt(a) > 0 /\ (Made(b) => FirstAt(a) < FirstAt(b))
Count(sys) == Cardinality({i \in 1..Len(last.trace) : last.trace[i].sys = sys})
PivotOrder ==
    <<"open_hostroot", "pivot_root", "fchdir_oldroot", "mount_slave", "umount_detach",
      "chdir_slash", "close">>
OpenedHostRoot == \E e \in Events : e.sys = "open_hostroot" /\ e.ok

\* C16: in the pivot strategy of Chroot the descriptor to the host root is
\* opened before pivot_root is invoked; the change of directory into that
\* descriptor comes after pivot_root; the slave+recursive propagation change
\* comes before the lazy detach-unmount; the final chdir("/") comes after
\* the detach-unmount; no step is made twice or out of that order; and the
\* held descriptor is released, once, on every exit path taken after it was
\* opened, and on no path where it was not opened.
C16_PivotOrder ==
    (Served("Chroot") /\ last.args.method = "pivot") =>
       /\ Made("pivot_root") => Before("open_hostroot", "pivot_root")
       /\ Made("fchdir_oldroot") => Before("pivot_root", "fchdir_oldroot")
       /\ Made("umount_detach") => Before("mount_slave", "umount_detach")
       /\ Made("chdir_slash") => Before("umount_detach", "chdir_slash")
       /\ \A i \in 1..7 : Count(PivotOrder[i]) <= 1
       /\ \A i \in 1..7, j \in 1..7 :
             (i < j /\ Made(PivotOrder[i]) /\ Made(PivotOrder[j])) =>
                FirstAt(PivotOrder[i]) < FirstAt(PivotOrder[j])
       /\ \A i \in 2..6 : Made(PivotOrder[i]) => Made(PivotOrder[i - 1])
       /\ OpenedHostRoot <=> Made("close")
       /\ Made("close") => last.trace[Len(last.trace)].sys = "close"

\* a pivot that opened the host root and then failed part-way, having
\* released the descriptor
C16_Witness ==
    /\ Served("Chroot")
    /\ last.args.method = "pivot"
    /\ last.ret = "mount_slave"
    /\ Made("fchdir_oldroot")
    /\ Made("close")

\* --- Chroot: strategies
\* C19: a Chroot call that returns success has changed the process's root
\* through exactly one of the strategies pivot, move and chroot; a request
\* with any other strategy does not return success.
C19_SuccessOnlyThroughStrategy ==
    (Served("Chroot") /\ last.ret = "nil") =>
       /\ last.args.method \in Strategies
       /\ Made("pivot_root") # Made("chroot")
       /\ root = RequestedRoot

\* --- restoration failures
\* the most recent request made a restoration step that the kernel refused:
\* the re-join of the server's own IPC namespace, or a reset of an fs id
RestoreFailed ==
    \E i \in 1..Len(last.trace) :
        /\ ~last.trace[i].ok
        /\ \/ last.trace[i].sys = "setns" /\ last.trace[i].arg = SelfPid
           \/ last.op = "LoopDevice" /\ last.trace[i].sys \in {"setfsuid", "setfsgid"}

\* C13: once a restoration step has failed inside a server operation (the
\* fs-uid/fs-gid restore at the end of LoopDevice, the re-join of the
\* container IPC namespace at the end of Decrypt), the server serves no
\* further request: the request that failed stays the most recent one.
C13_NoRequestAfterFailedRestore == [][RestoreFailed => last' = last]_vars

\* --- Decrypt: pinning
\* C15: in a Decrypt call with MasterPid > 0 the steps are made in the order
\* pin thread, join the master's IPC namespace, unlock, re-join the server's
\* own IPC namespace, unpin thread (a call that fails to join the master's
\* namespace makes only pin, join, unpin), and on every path the thread is
\* not in the host IPC namespace when it is unpinned.
C15_DecryptPinnedWhileInHostNs ==
    (Served("Decrypt") /\ last.args.masterPid > 0) =>
       /\ Names(last.trace) \in {<<"lock", "setns", "cryptopen", "setns", "unlock">>,
                                 <<"lock", "setns", "unlock">>}
       /\ last.trace[2].arg = last.args.masterPid
       /\ Len(last.trace) = 5 => last.trace[4].arg = SelfPid
       /\ last.trace[Len(last.trace)].sys = "unlock" => ipcns[last.t] # "host"

\* --- MonitorContainer
Returned == mon.pc = "returned"
LastOf(seq) == seq[Len(seq)]
\* the most recent turn of the loop was a reap attempt
LastWasReap == Len(mon.recv) > 0 /\ LastOf(mon.recv) = "SIGCHLD"

\* C11 (as stated): on every return of MonitorContainer, a non-blocking reap
\* attempt triggered by SIGCHLD has returned the tracked pid.
C11_EveryReturnAfterReap ==
    Returned => (LastWasReap /\ LastOf(mon.reaps) = ChildPid)

\* C11 (amended): every return without error comes right after a reap
\* attempt, triggered by SIGCHLD, that returned the tracked pid, and carries
\* the status collected from it; a reap attempt that returned no pid yet
\* makes the loop continue; a return not preceded by such a reap carries an
\* error (the wait or a forward failed).
C11_ReturnAfterReapUnlessError ==
    /\ (Returned /\ mon.err = NoErr) =>
          /\ LastWasReap
          /\ LastOf(mon.reaps) = ChildPid
          /\ child.state = "reaped"
          /\ mon.status = child.status
    /\ (LastWasReap /\ LastOf(mon.reaps) = 0) => mon.pc = "running"
    /\ (Returned /\ ~(LastWasReap /\ LastOf(mon.reaps) = ChildPid)) =>
          mon.err[1] \in {"error while waiting child", "interrupted by signal"}

\* a return that followed a reap attempt that came too early and one that
\* collected the status
C11_Witness ==
    /\ Returned
    /\ mon.err = NoErr
    /\ Len(mon.reaps) >= 2
    /\ mon.reaps[1] = 0
    /\ mon.status = WaitStatus(3)

\* the signals received so far that are not SIGCHLD, in the order received
Relayed == SelectSeq(mon.recv, LAMBDA s : s # "SIGCHLD")
Forwards == [i \in 1..Len(mon.kills) |-> mon.kills[i].sig]

\* C17: while MonitorContainer is running, every received signal other than
\* SIGCHLD is forwarded to the tracked pid exactly once and in the order
\* received, and SIGCHLD is never forwarded; if forwarding a signal fails,
\* MonitorContainer returns an error instead of continuing.
C17_SignalsForwardedInOrder ==
    /\ Forwards = Relayed
    /\ \A i \in 1..Len(mon.kills) : mon.kills[i].sig # "SIGCHLD"
    /\ \A i \in 1..Len(mon.kills) :
          ~mon.kills[i].ok =>
             /\ i = Len(mon.kills)
             /\ Returned
             /\ mon.err = KillErr(mon.kills[i].sig)
             /\ LastOf(mon.recv) = mon.kills[i].sig
    /\ mon.pc = "running" => \A i \in 1..Len(mon.kills) : mon.kills[i].ok

\* two signals were forwarded around a SIGCHLD that was not, and the second
\* forward failed
C17_Witness ==
    /\ mon.recv = <<"SIGTERM", "SIGCHLD", "SIGINT">>
    /\ Forwards = <<"SIGTERM", "SIGINT">>
    /\ ~mon.kills[2].ok
    /\ Returned

\* C18 (as stated): once the tracked pid has exited and a SIGCHLD was
\* delivered at or after that moment, the call returns the child's status.
C18_ReturnsChildStatus ==
    (child.notified /\ Returned) => (mon.err = NoErr /\ mon.status = child.status)

\* C18 (amended): under fair scheduling, once the tracked pid has exited and
\* a SIGCHLD was delivered at or after that moment, the call eventually
\* returns; it returns the child's status unless the wait or a forward
\* failed, in which case it returns that error; a SIGCHLD received while the
\* child is not yet reapable leaves the call running.
C18_EventuallyReturns ==
    /\ child.notified ~> Returned
    /\ [](Returned =>
            \/ mon.err = NoErr /\ child.state = "reaped" /\ mon.status = child.status
            \/ mon.err[1] = "error while waiting child" /\ LastWasReap
            \/ mon.err[1] = "interrupted by signal" /\ ~LastOf(mon.kills).ok)
    /\ []((LastWasReap /\ LastOf(mon.reaps) = 0) => mon.pc = "running")

\* a SIGCHLD came before the child could be reaped, the child then exited
\* with code 3, a later SIGCHLD made the call return that status
C18_Witness ==
    /\ child.notified
    /\ Returned
    /\ mon.err = NoErr
    /\ mon.recv = <<"SIGCHLD", "SIGCHLD">>
    /\ mon.reaps = <<0, ChildPid>>
    /\ mon.status = WaitStatus(3)

\* --- StartProcess
StepNames(tr) == [i \in 1..Len(tr) |-> <<tr[i].step, tr[i].arg>>]
Ran(name) == \E i \in 1..Len(build.trace) : build.trace[i] = Step("runScriptSection", name)
PosOf(name) == CHOOSE i \in 1..Len(build.trace) : build.trace[i] = Step("runScriptSection", name)

\* C12: StartProcess never returns to its caller: it cleans the environment
\* first, then runs %post exactly when that section is selected and its
\* script is non-empty, then runs %test exactly when that section is
\* selected, NoTest is unset and its script is non-empty, and then ends the
\* process with exit status 0; %test never runs before %post and no section
\* runs before the environment is cleaned.
C12_StartProcessOrder ==
    /\ build.pc \in {"ready", "exited"}
    /\ build.pc = "exited" =>
          LET tr == build.trace
              c == build.cfg
              n == Len(tr)
          IN  /\ n >= 2
              /\ tr[1] = Step("cleanEnv", "-")
              /\ tr[n] = Step("os.Exit", "0")
              /\ build.exit = 0
              /\ \A i \in 2..(n - 1) : tr[i].step = "runScriptSection"
              /\ Ran("post") <=> ("post" \in c.sections /\ c.post # "")
              /\ Ran("test") <=> ("test" \in c.sections /\ ~c.noTest /\ c.test # "")
              /\ (Ran("post") /\ Ran("test")) => PosOf("post") < PosOf("test")
              /\ Cardinality({i \in 1..n : tr[i].step = "runScriptSection"}) =
                    Cardinality({s \in {"post", "test"} : Ran(s)})

\* a run of both sections, in a cleaned environment that kept some variable
C12_Witness ==
    /\ build.pc = "exited"
    /\ StepNames(build.trace) =
          <<<<"cleanEnv", "-">>, <<"runScriptSection", "post">>,
            <<"runScriptSection", "test">>, <<"os.Exit", "0">>>>
    /\ build.env # <<>>

\* --- engine registry
Looked == found.name # "-"

\* C14: a lookup of a name that was never registered yields NotFound, never
\* an engine; a lookup of the OCI engine's Name made after its load-time
\* registration yields its lifecycle operations together with its RPC
\* operation catalogue, both held under that one name.
C14_RegistryLookup ==
    Looked =>
       /\ (found.reg.ops[found.name] = "none" /\ found.reg.rpc[found.name] = "none") =>
             found.res = NotFound
       /\ (found.name # Name \/ Name \notin found.reg.loaded) => ~found.res.ok
       /\ (found.name = Name /\ Name \in found.reg.loaded) =>
             /\ found.res = [ok |-> TRUE, ops |-> OciOperations, rpc |-> OciMethods]
             /\ found.reg.ops[Name] = OciOperations
             /\ found.reg.rpc[Name] = OciMethods

\* the OCI engine was looked up after it registered, and found
C14_Witness ==
    /\ Looked
    /\ found.name = Name
    /\ found.res.ok
    /\ found.res.rpc = OciMethods
    /\ Name \in registry.loaded

====
